---- MODULE Spec2Model ----
(***************************************************************************)
(* A model of scripts/data_processor.py: main() loads input/ev_data.csv,  *)
(* fits the forecast and renders eight charts.  A table cell is an option *)
(* tuple: <<v>> holds the value v, <<>> is a missing value (NaN).         *)
(***************************************************************************)
EXTENDS Integers, Sequences, FiniteSets, TLC

VARIABLES
    input_folder,    \* os.path.exists(input_folder), line 221
    csv,             \* the file input/ev_data.csv: [exists, header, rows]
    pc,              \* position of main(): start, load, forecast, plot, chart, done, crashed
    df,              \* the table load_data returned, or None
    forecasted_evs,  \* the map forecast_future_registrations returned, or None
    agg,             \* the aggregations plot_all_charts precomputes (lines 54-61), or None
    chart,           \* the chart plot_all_charts is at, [k, phase]
    drawn,           \* the bars of the open figure: [group, src, text, val]
    figs,            \* the charts whose figure is open
    files,           \* the chart files written so far, in order
    now,             \* the wall clock
    timestamp,       \* line 51
    calls,           \* the functions main has called, in order
    raised           \* the exception that left main, or NoError

vars == <<input_folder, csv, pc, df, forecasted_evs, agg, chart, drawn, figs,
          files, now, timestamp, calls, raised>>

----------------------------------------------------------------------------
(* Bounds of the model *)

MaxRows == 3        \* rows of a generated input file
MaxExtraRows == 2   \* rows added to the base table of the aggregation runs
MaxClock == 2       \* clock ticks during a run

(* Program constants *)

CUTOFF_YEAR == 2023
FORECAST_FIRST == 2024
FORECAST_LAST == 2029
TOP_COUNTIES == 3
TOP_MAKES == 5
TOP_3_MAKES == 3
TOP_PAIRS == 5
LABEL_MAX == 12
INT16_MIN == -32768
INT16_MAX == 32767

(* None is the empty option; Some(v) holds v. *)
None == <<>>
Some(v) == <<v>>
NoError == "NoError"

usecols == {"State", "Model Year", "Make", "Model", "County", "City",
            "Electric Vehicle Type", "Electric Range"}

CategoryCols == {"State", "Make", "Model", "County", "City", "Electric Vehicle Type"}

TARGET_STATE == "WA"

(* The texts pandas.read_csv reads as a missing value. *)
NaValues == {"", "#N/A", "#N/A N/A", "#NA", "-1.#IND", "-1.#QNAN", "-NaN", "-nan",
             "1.#IND", "1.#QNAN", "<NA>", "N/A", "NA", "NULL", "NaN", "None",
             "n/a", "nan", "null"}

NaN == <<>>
IsNull(cell) == cell = NaN
Val(cell) == cell[1]

----------------------------------------------------------------------------
(* Parsing the text of a numeric cell *)

Digits == "0123456789"

DigitOf(c) == (CHOOSE i \in 1..10 : SubSeq(Digits, i, i) = c) - 1

IsDigits(s) ==
    /\ Len(s) > 0
    /\ \A i \in 1..Len(s) : \E j \in 1..10 : SubSeq(Digits, j, j) = SubSeq(s, i, i)

RECURSIVE ParseNat(_)
ParseNat(s) ==
    IF Len(s) = 0 THEN 0
    ELSE 10 * ParseNat(SubSeq(s, 1, Len(s) - 1)) + DigitOf(SubSeq(s, Len(s), Len(s)))

IsIntText(s) ==
    \/ IsDigits(s)
    \/ Len(s) > 1 /\ SubSeq(s, 1, 1) = "-" /\ IsDigits(SubSeq(s, 2, Len(s)))

ParseInt(s) ==
    IF SubSeq(s, 1, 1) = "-" THEN 0 - ParseNat(SubSeq(s, 2, Len(s))) ELSE ParseNat(s)

----------------------------------------------------------------------------
(* load_data *)

(* The value of v in 16 bits, two's complement. *)
Wrap16(v) == ((v - INT16_MIN) % 65536) + INT16_MIN

(* dtype 'int16': a missing or non-numeric text fails. *)
Int16Fails(text) ==
    \/ text \in NaValues
    \/ ~IsIntText(text)

(* A number out of the range of int16: the parser reads 64 bits and casts,  *)
(* which wraps the value; whether a pandas release raises instead is not    *)
(* settled by this code, so both outcomes are kept.                         *)
Int16Overflows(text) ==
    /\ ~Int16Fails(text)
    /\ (ParseInt(text) < INT16_MIN \/ ParseInt(text) > INT16_MAX)

(* dtype 'float32' (whole numbers only): a non-numeric text fails, a missing one is NaN. *)
Float32Fails(text) == text \notin NaValues /\ ~IsIntText(text)

ReadFails(file) ==
    \/ ~file.exists
    \/ ~(usecols \subseteq file.header)
    \/ \E i \in 1..Len(file.rows) :
          \/ Int16Fails(file.rows[i]["Model Year"])
          \/ Float32Fails(file.rows[i]["Electric Range"])

ReadOverflows(file) ==
    \E i \in 1..Len(file.rows) : Int16Overflows(file.rows[i]["Model Year"])

TypedCell(col, text) ==
    IF text \in NaValues THEN NaN
    ELSE IF col = "Model Year" THEN <<Wrap16(ParseInt(text))>>
    ELSE IF col = "Electric Range" THEN <<ParseInt(text)>>
    ELSE <<text>>

(* pd.read_csv(file_path, usecols=usecols, dtype=dtypes), line 32 *)
read_csv(file) ==
    [rows |-> [i \in 1..Len(file.rows) |->
                  [c \in usecols |-> TypedCell(c, file.rows[i][c])]],
     cats |-> [c \in CategoryCols |->
                  {file.rows[i][c] : i \in 1..Len(file.rows)} \ NaValues]]

RECURSIVE SelectRows(_, _)
SelectRows(rows, keep) ==
    IF Len(rows) = 0 THEN <<>>
    ELSE LET rest == SelectRows(Tail(rows), [i \in 1..(Len(rows) - 1) |-> keep[i + 1]])
         IN  IF keep[1] THEN <<Head(rows)>> \o rest ELSE rest

(* dropna(how='all'): a row is dropped only when every cell of it is missing *)
dropna_how_all(frame) ==
    [frame EXCEPT !.rows =
        SelectRows(frame.rows,
                   [i \in 1..Len(frame.rows) |->
                       \E c \in usecols : ~IsNull(frame.rows[i][c])])]

(* df.dropna().reset_index(drop=True), line 40 *)
dropna(frame) ==
    [frame EXCEPT !.rows =
        SelectRows(frame.rows,
                   [i \in 1..Len(frame.rows) |->
                       \A c \in usecols : ~IsNull(frame.rows[i][c])])]

(* df[df['State'] == 'WA'].reset_index(drop=True), line 42 *)
filter_state(frame) ==
    [frame EXCEPT !.rows =
        SelectRows(frame.rows,
                   [i \in 1..Len(frame.rows) |->
                       frame.rows[i]["State"] = <<TARGET_STATE>>])]

(* The results load_data can return on file: None after an exception,  *)
(* else the cleaned table.                                             *)
load_data(file) ==
    IF ReadFails(file) THEN {None}
    ELSE {Some(filter_state(dropna(read_csv(file))))}
         \cup (IF ReadOverflows(file) THEN {None} ELSE {})

----------------------------------------------------------------------------
(* Series: a sequence of entries [key, val], val a fraction [num, den]    *)
(* (a count n is n/1, a mean is sum/size).                                 *)

Count(n) == [num |-> n, den |-> 1]
Leq(a, b) == a.num * b.den <= b.num * a.den

Range(s) == {s[i] : i \in 1..Len(s)}
head(s, n) == SubSeq(s, 1, IF Len(s) < n THEN Len(s) ELSE n)
Keys(s) == [i \in 1..Len(s) |-> s[i].key]

RECURSIVE Sum(_)
Sum(s) == IF Len(s) = 0 THEN 0 ELSE Head(s).val.num + Sum(Tail(s))

(* The rows of frame whose cell in col holds v. *)
RowsWith(frame, col, v) == {i \in 1..Len(frame.rows) : frame.rows[i][col] = <<v>>}

(* The values of col present in frame; a missing value is no key (dropna=True). *)
Observed(frame, col) ==
    {Val(frame.rows[i][col]) : i \in {j \in 1..Len(frame.rows) : ~IsNull(frame.rows[j][col])}}

(* sort_index(): the entries of f in ascending key order (integer keys). *)
RECURSIVE sort_index(_)
sort_index(f) ==
    IF DOMAIN f = {} THEN <<>>
    ELSE LET k == CHOOSE m \in DOMAIN f : \A j \in DOMAIN f : m <= j
         IN  <<[key |-> k, val |-> f[k]]>> \o sort_index([j \in DOMAIN f \ {k} |-> f[j]])

(* sort_values(): ascending, the default *)
RECURSIVE sort_values_asc(_)
sort_values_asc(f) ==
    IF DOMAIN f = {} THEN {<<>>}
    ELSE LET low == {k \in DOMAIN f : \A j \in DOMAIN f : Leq(f[k], f[j])}
         IN  UNION {{<<[key |-> k, val |-> f[k]]>> \o t :
                        t \in sort_values_asc([j \in DOMAIN f \ {k} |-> f[j]])} : k \in low}

(* sort_values(ascending=False): every descending order of the entries of f; *)
(* the sort is not stable, so equal values come out in any order.            *)
RECURSIVE sort_values_desc(_)
sort_values_desc(f) ==
    IF DOMAIN f = {} THEN {<<>>}
    ELSE LET top == {k \in DOMAIN f : \A j \in DOMAIN f : Leq(f[j], f[k])}
         IN  UNION {{<<[key |-> k, val |-> f[k]]>> \o t :
                        t \in sort_values_desc([j \in DOMAIN f \ {k} |-> f[j]])} : k \in top}

(* Series.value_counts() of an integer column: the count of each value present. *)
value_counts_int(frame, col) ==
    [v \in Observed(frame, col) |-> Count(Cardinality(RowsWith(frame, col, v)))]

(* Series.value_counts() of a categorical column: every category has an entry, *)
(* also one no row holds (count 0).                                            *)
value_counts_cat(frame, col) ==
    [v \in frame.cats[col] |-> Count(Cardinality(RowsWith(frame, col, v)))]

(* df[df[col].isin(keys)] *)
isin(frame, col, keys) ==
    [frame EXCEPT !.rows =
        SelectRows(frame.rows,
                   [i \in 1..Len(frame.rows) |->
                       /\ ~IsNull(frame.rows[i][col])
                       /\ Val(frame.rows[i][col]) \in keys])]

(* groupby([a, b], observed=True): the pairs present, each with its rows. *)
Pairs(frame, a, b) ==
    {<<Val(frame.rows[i][a]), Val(frame.rows[i][b])>> :
        i \in {j \in 1..Len(frame.rows) :
                  ~IsNull(frame.rows[j][a]) /\ ~IsNull(frame.rows[j][b])}}

PairRows(frame, a, b, p) ==
    {i \in 1..Len(frame.rows) : frame.rows[i][a] = <<p[1]>> /\ frame.rows[i][b] = <<p[2]>>}

RECURSIVE SumRange(_, _)
SumRange(frame, I) ==
    IF I = {} THEN 0
    ELSE LET i == CHOOSE j \in I : TRUE
         IN  Val(frame.rows[i]["Electric Range"]) + SumRange(frame, I \ {i})

(* .size() *)
group_size(frame, a, b) ==
    [p \in Pairs(frame, a, b) |-> Count(Cardinality(PairRows(frame, a, b, p)))]

(* ['Electric Range'].mean() *)
group_mean(frame, a, b) ==
    [p \in Pairs(frame, a, b) |->
        [num |-> SumRange(frame, PairRows(frame, a, b, p)),
         den |-> Cardinality(PairRows(frame, a, b, p))]]

----------------------------------------------------------------------------
(* forecast_future_registrations *)

(* ev_registration_counts[ev_registration_counts.index <= 2023], lines 194-195 *)
filtered_years(frame) ==
    SelectSeq(sort_index(value_counts_int(frame, "Model Year")),
              LAMBDA e : e.key <= CUTOFF_YEAR)

(* filtered_years.index.min(); of an empty index it is NaN *)
index_min(fy) == IF Len(fy) = 0 THEN NaN ELSE <<fy[1].key>>

(* exp_growth(x, a, b) = a * np.exp(b * x), kept as the term it denotes *)
exp_growth(x, params) == [a |-> params.a, b |-> params.b, x |-> x]

(* curve_fit(exp_growth, x_data, y_data), line 203: no data is a ValueError,  *)
(* fewer points than the 2 parameters a TypeError; otherwise least squares    *)
(* either converges or ends in a RuntimeError.                                *)
curve_fit_errors(x_data, y_data) ==
    IF Len(y_data) = 0 THEN {"ValueError"}
    ELSE IF Len(y_data) < 2 THEN {"TypeError"}
    ELSE {"RuntimeError"}

(* a fit that also runs on a single point *)
curve_fit_one_point(x_data, y_data) == Len(y_data) >= 1

curve_fit_converges(x_data, y_data) == Len(y_data) >= 2

(* The fitted parameters, a function of the data. *)
curve_fit(x_data, y_data) ==
    [a |-> <<"a", x_data, y_data>>, b |-> <<"b", x_data, y_data>>]

(* np.arange(2024, 2029): the end of the range is left out *)
forecast_years_short == [i \in 1..(FORECAST_LAST - FORECAST_FIRST) |-> FORECAST_FIRST + i - 1]

(* np.arange(2024, 2029 + 1) *)
forecast_years_full == [i \in 1..(FORECAST_LAST + 1 - FORECAST_FIRST) |-> FORECAST_FIRST + i - 1]

(* dict(zip(keys, values)): a later pair replaces an earlier one of the same key *)
dict_zip(keys, values) ==
    [k \in Range(keys) |->
        values[CHOOSE i \in 1..Len(keys) : keys[i] = k /\ \A j \in (i + 1)..Len(keys) : keys[j] # k]]

(* x_data and y_data, lines 200-201 *)
x_data(fy) == [i \in 1..Len(fy) |-> Wrap16(fy[i].key - Val(index_min(fy)))]
y_data(fy) == [i \in 1..Len(fy) |-> fy[i].val.num]

(* keys counted from the last year of the fitting sample *)
forecast_keys_after_last(fy) ==
    [i \in 1..(FORECAST_LAST + 1 - FORECAST_FIRST) |-> fy[Len(fy)].key + i]

(* The keys of the map, line 206: forecast_years + filtered_years.index.min() *)
forecast_keys(fy) ==
    LET m == Val(index_min(fy))
        forecast_years == [i \in 1..Len(forecast_years_full) |-> forecast_years_full[i] - m]
    IN  [i \in 1..Len(forecast_years) |-> forecast_years[i] + m]

(* lines 203-208, when the fit converged *)
forecast_map(fy) ==
    LET m == Val(index_min(fy))
        params == curve_fit(x_data(fy), y_data(fy))
        forecast_years == [i \in 1..Len(forecast_years_full) |-> forecast_years_full[i] - m]
        forecasted_values == [i \in 1..Len(forecast_years) |-> exp_growth(forecast_years[i], params)]
    IN  dict_zip(forecast_keys(fy), forecasted_values)

----------------------------------------------------------------------------
(* plot_all_charts *)

CHARTS == 8

slug(k) ==
    CASE k = 1 -> "ev_adoption_over_time"
      [] k = 2 -> "top_cities_in_top_counties"
      [] k = 3 -> "ev_type_distribution"
      [] k = 4 -> "top_5_makes"
      [] k = 5 -> "top_models_in_top_makes"
      [] k = 6 -> "average_range_by_year"
      [] k = 7 -> "top_models_by_range"
      [] k = 8 -> "ev_market_forecast"

(* os.path.join(output_folder, os.path.basename(file_path).split(".")[0]), line 236 *)
output_prefix == "output/ev_data"

(* a timestamp taken anew for each file *)
filename_now(k, ts, clock) == [prefix |-> output_prefix, slug |-> slug(k), timestamp |-> clock]

(* f'{output_prefix}_<slug>_{timestamp}.png'; ts is line 51's timestamp, *)
(* clock the time of the savefig call                                     *)
filename(k, ts, clock) == [prefix |-> output_prefix, slug |-> slug(k), timestamp |-> ts]

(* len(x) >= 12 in place of len(x) > 12 *)
truncate_from_12(x) == IF Len(x) >= LABEL_MAX THEN SubSeq(x, 1, LABEL_MAX) \o "..." ELSE x

(* lambda x: x[:12] + '...' if len(x) > 12 else x *)
truncate(x) == IF Len(x) > LABEL_MAX THEN SubSeq(x, 1, LABEL_MAX) \o "..." ELSE x

(* The label of a bar of a chart that truncates (lines 81, 124, 156) and of *)
(* one that draws the index as it is (lines 98, 110).                       *)
truncated_label(x) == truncate(x)
index_label(x) == x

(* df['County'].value_counts().head(3): the distribution cut to its head *)
ev_county_distribution_head(frame) ==
    {head(c, TOP_COUNTIES) : c \in sort_values_desc(value_counts_cat(frame, "County"))}

(* Line 55: df['County'].value_counts(), every outcome of its descending sort *)
ev_county_distribution(frame) == sort_values_desc(value_counts_cat(frame, "County"))

(* Line 58: df['Electric Vehicle Type'].value_counts() *)
ev_type_distribution(frame) ==
    sort_values_desc(value_counts_cat(frame, "Electric Vehicle Type"))

(* Line 59: df['Make'].value_counts().head(5) *)
ev_make_distribution(frame) ==
    {head(m, TOP_MAKES) : m \in sort_values_desc(value_counts_cat(frame, "Make"))}

(* Lines 54-61: every outcome of the precomputed aggregations. *)
Aggregations(frame) ==
    {[ev_adoption_by_year |-> sort_index(value_counts_int(frame, "Model Year")),
      ev_county_distribution |-> c,
      top_counties |-> Keys(head(c, TOP_COUNTIES)),
      ev_type_distribution |-> t,
      ev_make_distribution |-> m,
      top_3_makes |-> Keys(head(m, TOP_3_MAKES))] :
        c \in ev_county_distribution(frame),
        t \in ev_type_distribution(frame),
        m \in ev_make_distribution(frame)}

top_counties_data(frame, a) == isin(frame, "County", Range(a.top_counties))
top_makes_data(frame, a) == isin(frame, "Make", Range(a.top_3_makes))

(* Line 80: the (County, City) counts of the top counties, descending, head(5) *)
ev_city_distribution_top_counties(frame, a) ==
    {head(s, TOP_PAIRS) :
        s \in sort_values_desc(group_size(top_counties_data(frame, a), "County", "City"))}

(* Lines 122-123: the (Make, Model) counts of the top 3 makes, descending, head(5) *)
top_models(frame, a) ==
    {head(s, TOP_PAIRS) :
        s \in sort_values_desc(group_size(top_makes_data(frame, a), "Make", "Model"))}

(* Lines 154-155: the (Make, Model) mean ranges of the top 3 makes, descending, head(5) *)
top_range_models(frame, a) ==
    {head(s, TOP_PAIRS) :
        s \in sort_values_desc(group_mean(top_makes_data(frame, a), "Make", "Model"))}

(* Series.unique(): the values in order of first appearance *)
RECURSIVE unique(_)
unique(s) ==
    IF Len(s) = 0 THEN <<>>
    ELSE LET init == unique(SubSeq(s, 1, Len(s) - 1))
         IN  IF s[Len(s)] \in Range(init) THEN init ELSE Append(init, s[Len(s)])

(* The loops of lines 83-85, 126-128, 158-160: one barh call per group, in *)
(* order of first appearance, over the rows of that group.                 *)
RECURSIVE Flatten(_)
Flatten(ss) == IF Len(ss) = 0 THEN <<>> ELSE Head(ss) \o Flatten(Tail(ss))

grouped_bars(pairs) ==
    LET groups == unique([i \in 1..Len(pairs) |-> pairs[i].key[1]])
        bar(e) == [group |-> e.key[1], src |-> e.key[2],
                   text |-> truncated_label(e.key[2]), val |-> e.val]
        all == [i \in 1..Len(pairs) |-> bar(pairs[i])]
    IN  Flatten([g \in 1..Len(groups) |->
                    SelectSeq(all, LAMBDA b : b.group = groups[g])])

(* Lines 98 and 110: ax.barh(series.index, series.values) *)
index_bars(series) ==
    [i \in 1..Len(series) |->
        [group |-> "", src |-> series[i].key,
         text |-> index_label(series[i].key), val |-> series[i].val]]

(* The exception the code of chart k raises on these data, or NoError:     *)
(* colors[i] beyond the colors (lines 85, 128, 160), np.arange from NaN    *)
(* (line 175), a year missing in the forecast map (line 179).              *)
groups_of(pairs) == unique([i \in 1..Len(pairs) |-> pairs[i].key[1]])

chart_error(k, frame, a, evs, pairs) ==
    CASE k = 2 /\ Len(groups_of(pairs)) > Len(a.top_counties) -> "IndexError"
      [] k \in {5, 7} /\ Len(groups_of(pairs)) > Len(a.top_3_makes) -> "IndexError"
      [] k = 8 /\ Len(filtered_years(frame)) = 0 -> "ValueError"
      [] k = 8 /\ \E i \in 1..Len(forecast_years_full) :
                     forecast_years_full[i] \notin DOMAIN evs -> "KeyError"
      [] OTHER -> NoError

(* What chart k selects to draw: every outcome of its descending sort. *)
chart_selection(k, frame, a) ==
    CASE k = 2 -> ev_city_distribution_top_counties(frame, a)
      [] k = 5 -> top_models(frame, a)
      [] k = 7 -> top_range_models(frame, a)
      [] k = 3 -> {a.ev_type_distribution}
      [] k = 4 -> {a.ev_make_distribution}
      [] OTHER -> {<<>>}

chart_bars(k, sel) ==
    CASE k \in {2, 5, 7} -> grouped_bars(sel)
      [] k \in {3, 4} -> index_bars(sel)
      [] OTHER -> <<>>

(* savefig called before the drawing calls *)
next_phase_save_first(phase) ==
    CASE phase = "create" -> "save"
      [] phase = "save" -> "draw"
      [] phase = "draw" -> "close"
      [] phase = "close" -> "create"

(* The order of the steps of one chart: plt.subplots, the drawing calls, *)
(* plt.savefig, plt.close.                                                *)
next_phase(phase) ==
    CASE phase = "create" -> "draw"
      [] phase = "draw" -> "save"
      [] phase = "save" -> "close"
      [] phase = "close" -> "create"

----------------------------------------------------------------------------
(* main *)

(* after_load without the test of line 232 *)
after_load_unchecked(d) == "forecast"

(* if df is not None, line 232 *)
after_load(d) == IF d = None THEN "done" ELSE "forecast"

(* Lines 212-229: without the input folder main logs and returns. *)
MainStart ==
    /\ pc = "start"
    /\ pc' = IF input_folder THEN "load" ELSE "done"
    /\ UNCHANGED <<input_folder, csv, df, forecasted_evs, agg, chart, drawn, figs,
                   files, now, timestamp, calls, raised>>

(* Line 230: df = load_data(file_path), and the test of line 232. *)
LoadData ==
    /\ pc = "load"
    /\ \E d \in load_data(csv) : df' = d /\ pc' = after_load(d)
    /\ calls' = Append(calls, "load_data")
    /\ UNCHANGED <<input_folder, csv, forecasted_evs, agg, chart, drawn, figs,
                   files, now, timestamp, raised>>

(* The exceptions forecast_future_registrations can raise on d. *)
forecast_errors(d) ==
    IF d = None THEN {"TypeError"}
    ELSE LET fy == filtered_years(Val(d)) IN curve_fit_errors(x_data(fy), y_data(fy))

(* Whether forecast_future_registrations can return on d. *)
forecast_returns(d) ==
    /\ d # None
    /\ LET fy == filtered_years(Val(d)) IN curve_fit_converges(x_data(fy), y_data(fy))

(* Line 233: forecasted_evs = forecast_future_registrations(df); an exception *)
(* leaves main, nothing catches it.                                           *)
Forecast ==
    /\ pc = "forecast"
    /\ calls' = Append(calls, "forecast_future_registrations")
    /\ \/ /\ \E e \in forecast_errors(df) : raised' = e
          /\ pc' = "crashed"
          /\ UNCHANGED forecasted_evs
       \/ /\ forecast_returns(df)
          /\ forecasted_evs' = Some(forecast_map(filtered_years(Val(df))))
          /\ pc' = "plot"
          /\ UNCHANGED raised
    /\ UNCHANGED <<input_folder, csv, df, agg, chart, drawn, figs, files, now, timestamp>>

(* Line 236 and lines 51-61: the call of plot_all_charts, its timestamp and *)
(* its aggregations.                                                        *)
PlotAggregate ==
    /\ pc = "plot"
    /\ calls' = Append(calls, "plot_all_charts")
    /\ timestamp' = Some(now)
    /\ \E a \in Aggregations(Val(df)) : agg' = Some(a)
    /\ chart' = [k |-> 1, phase |-> "create"]
    /\ pc' = "chart"
    /\ UNCHANGED <<input_folder, csv, df, forecasted_evs, drawn, figs, files, now, raised>>

(* fig, ax = plt.subplots(...) *)
ChartCreate ==
    /\ pc = "chart"
    /\ chart.phase = "create"
    /\ figs' = figs \cup {chart.k}
    /\ drawn' = <<>>
    /\ chart' = [chart EXCEPT !.phase = next_phase("create")]
    /\ UNCHANGED <<input_folder, csv, pc, df, forecasted_evs, agg, files, now,
                   timestamp, calls, raised>>

(* The selection and drawing calls of chart k, up to its savefig. *)
ChartDraw ==
    /\ pc = "chart"
    /\ chart.phase = "draw"
    /\ \E sel \in chart_selection(chart.k, Val(df), Val(agg)) :
          LET e == chart_error(chart.k, Val(df), Val(agg), Val(forecasted_evs), sel)
          IN  IF e # NoError
              THEN /\ raised' = e
                   /\ pc' = "crashed"
                   /\ UNCHANGED <<drawn, chart>>
              ELSE /\ drawn' = chart_bars(chart.k, sel)
                   /\ chart' = [chart EXCEPT !.phase = next_phase("draw")]
                   /\ UNCHANGED <<raised, pc>>
    /\ UNCHANGED <<input_folder, csv, df, forecasted_evs, agg, figs, files, now,
                   timestamp, calls>>

(* plt.savefig(filename, ...) *)
ChartSave ==
    /\ pc = "chart"
    /\ chart.phase = "save"
    /\ files' = Append(files, filename(chart.k, Val(timestamp), now))
    /\ chart' = [chart EXCEPT !.phase = next_phase("save")]
    /\ UNCHANGED <<input_folder, csv, pc, df, forecasted_evs, agg, drawn, figs, now,
                   timestamp, calls, raised>>

(* plt.close(fig); gc.collect(); after the eighth chart plot_all_charts and *)
(* main return.                                                             *)
ChartClose ==
    /\ pc = "chart"
    /\ chart.phase = "close"
    /\ figs' = figs \ {chart.k}
    /\ drawn' = <<>>
    /\ IF chart.k = CHARTS
       THEN pc' = "done" /\ chart' = [chart EXCEPT !.phase = "returned"]
       ELSE pc' = pc /\ chart' = [k |-> chart.k + 1, phase |-> next_phase("close")]
    /\ UNCHANGED <<input_folder, csv, df, forecasted_evs, agg, files, now, timestamp,
                   calls, raised>>

(* A rendering call of chart k (subplots, a drawing call, savefig) raises: *)
(* nothing in plot_all_charts or main catches it.                          *)
RenderFail ==
    /\ pc = "chart"
    /\ chart.phase \in {"create", "draw", "save"}
    /\ raised' = "RenderError"
    /\ pc' = "crashed"
    /\ UNCHANGED <<input_folder, csv, df, forecasted_evs, agg, chart, drawn, figs,
                   files, now, timestamp, calls>>

(* The wall clock advances during the run. *)
Tick ==
    /\ pc \notin {"done", "crashed"}
    /\ now < MaxClock
    /\ now' = now + 1
    /\ UNCHANGED <<input_folder, csv, pc, df, forecasted_evs, agg, chart, drawn, figs,
                   files, timestamp, calls, raised>>

----------------------------------------------------------------------------
(* Input files *)

Row(st, yr, mk, md, co, ci, ty, rg) ==
    [c \in usecols |->
        CASE c = "State" -> st
          [] c = "Model Year" -> yr
          [] c = "Make" -> mk
          [] c = "Model" -> md
          [] c = "County" -> co
          [] c = "City" -> ci
          [] c = "Electric Vehicle Type" -> ty
          [] c = "Electric Range" -> rg]

File(rows) == [exists |-> TRUE, header |-> usecols \cup {"VIN (1-10)"}, rows |-> rows]
MissingFile == [exists |-> FALSE, header |-> {}, rows |-> <<>>]
MissingColumn(rows) == [exists |-> TRUE, header |-> usecols \ {"City"}, rows |-> rows]

BEV == "Battery Electric Vehicle (BEV)"
PHEV == "Plug-in Hybrid Electric Vehicle (PHEV)"

(* The rows the aggregation runs are built of. *)
AggRows ==
    << Row("WA", "2020", "TESLA", "MODEL 3", "King", "Seattle", BEV, "220"),
       Row("WA", "2021", "TESLA", "MODEL S PLAID", "King", "Mercer Island", BEV, "300"),
       Row("WA", "2019", "NISSAN", "LEAF SV PLUS", "Snohomish", "Everett", BEV, "150"),
       Row("WA", "2022", "NISSAN", "ARIYA", "Snohomish", "Lake Stevens", BEV, "87"),
       Row("WA", "2023", "CHEVROLET", "BOLT EV", "Pierce", "Tacoma", BEV, "238"),
       Row("WA", "2018", "CHEVROLET", "VOLT", "Pierce", "University Place", PHEV, "53"),
       Row("WA", "2024", "FORD", "MUSTANG MACH-E", "Clallam", "Port Angeles", BEV, "0"),
       Row("OR", "2017", "MERCEDES-BENZ", "EQS-CLASS SUV", "Multnomah", "Portland", PHEV, "30"),
       Row("WA", "2016", "ASTON MARTIN", "RAPIDE E", "King", "", BEV, "200") >>

RECURSIVE Rep(_, _)
Rep(r, n) == IF n = 0 THEN <<>> ELSE <<r>> \o Rep(r, n - 1)

BaseRows ==
    Rep(AggRows[1], 5) \o Rep(AggRows[2], 4) \o Rep(AggRows[3], 3) \o Rep(AggRows[4], 2)
    \o Rep(AggRows[5], 2) \o <<AggRows[6], AggRows[7], AggRows[8], AggRows[9]>>

(* The sequences of at most n indexes of 1..k, in ascending order. *)
RECURSIVE Ascending(_, _)
Ascending(k, n) ==
    IF n = 0 THEN {<<>>}
    ELSE LET P == Ascending(k, n - 1)
         IN  P \cup UNION {{Append(s, i) : i \in (IF Len(s) = 0 THEN 1 ELSE s[Len(s)])..k} :
                              s \in {t \in P : Len(t) = n - 1}}

AggFiles ==
    {File(BaseRows \o [i \in 1..Len(s) |-> AggRows[s[i]]]) :
        s \in Ascending(Len(AggRows), MaxExtraRows)}

(* The rows the load and forecast runs are built of. *)
DataRows ==
    << Row("WA", "2019", "TESLA", "MODEL 3", "King", "Seattle", BEV, "220"),
       Row("WA", "2020", "NISSAN", "LEAF", "King", "Seattle", BEV, "150"),
       Row("WA", "2023", "TESLA", "MODEL Y", "Pierce", "Tacoma", BEV, "0"),
       Row("WA", "2024", "FORD", "MUSTANG MACH-E", "King", "Bellevue", BEV, "0"),
       Row("OR", "2021", "TESLA", "MODEL 3", "Multnomah", "Portland", BEV, "220"),
       Row("WA", "2022", "KIA", "NIRO", "King", "", PHEV, "26"),
       Row("WA", "2021", "BMW", "I3", "King", "Seattle", BEV, ""),
       Row("", "2018", "TESLA", "MODEL S", "King", "Seattle", BEV, "208"),
       Row("WA", "", "TESLA", "MODEL X", "King", "Seattle", BEV, "200"),
       Row("WA", "2020", "TESLA", "MODEL 3", "King", "Seattle", BEV, "n.a."),
       Row("WA", "40000", "TESLA", "MODEL 3", "King", "Seattle", BEV, "220") >>

DataFiles ==
    {MissingFile, MissingColumn(<<DataRows[1], DataRows[2]>>)}
    \cup UNION {{File([i \in 1..n |-> DataRows[s[i]]]) : s \in [1..n -> 1..Len(DataRows)]} :
                   n \in 0..MaxRows}

(* The files of the complete runs. *)
SampleFiles ==
    { MissingFile,
      MissingColumn(<<DataRows[1], DataRows[2]>>),
      File(<<DataRows[1], DataRows[10]>>),
      File(<<DataRows[1], DataRows[11], DataRows[2]>>),
      File(<<>>),
      File(<<DataRows[2], DataRows[2]>>),
      File(<<DataRows[5], DataRows[8]>>),
      File(<<DataRows[1], DataRows[6], DataRows[3], DataRows[5], DataRows[2]>>),
      File(BaseRows) }

----------------------------------------------------------------------------
(* Specifications *)

Start(file, folder) ==
    /\ input_folder = folder
    /\ csv = file
    /\ pc = "start"
    /\ df = None
    /\ forecasted_evs = None
    /\ agg = None
    /\ chart = [k |-> 0, phase |-> "none"]
    /\ drawn = <<>>
    /\ figs = {}
    /\ files = <<>>
    /\ now = 0
    /\ timestamp = None
    /\ calls = <<>>
    /\ raised = NoError

(* Complete runs of main, with the clock and with rendering errors. *)
Init == \E file \in SampleFiles, folder \in BOOLEAN : Start(file, folder)

Next ==
    \/ MainStart
    \/ LoadData
    \/ Forecast
    \/ PlotAggregate
    \/ ChartCreate
    \/ ChartDraw
    \/ ChartSave
    \/ ChartClose
    \/ RenderFail
    \/ Tick

Spec == Init /\ [][Next]_vars

(* load_data and forecast_future_registrations on generated files. *)
InitData == \E file \in DataFiles : Start(file, TRUE)

NextData ==
    \/ MainStart
    \/ LoadData
    \/ Forecast

SpecData == InitData /\ [][NextData]_vars

(* Runs of main without rendering errors on generated tables. *)
InitAgg == \E file \in AggFiles : Start(file, TRUE)

NextAgg ==
    \/ MainStart
    \/ LoadData
    \/ Forecast
    \/ PlotAggregate
    \/ ChartCreate
    \/ ChartDraw
    \/ ChartSave
    \/ ChartClose

SpecAgg == InitAgg /\ [][NextAgg]_vars

----------------------------------------------------------------------------
(* Properties *)

Called(f) == \E i \in 1..Len(calls) : calls[i] = f

(* The chart slugs in the order the files are written. *)
SlugOrder ==
    << "ev_adoption_over_time", "top_cities_in_top_counties", "ev_type_distribution",
       "top_5_makes", "top_models_in_top_makes", "average_range_by_year",
       "top_models_by_range", "ev_market_forecast" >>

(* The input cannot be read or cleaned: no file, a required column missing, *)
(* or a cell that cannot be coerced to the type of its column.              *)
InputError ==
    \/ ~csv.exists
    \/ \E c \in usecols : c \notin csv.header
    \/ \E i \in 1..Len(csv.rows) :
          \/ Int16Fails(csv.rows[i]["Model Year"])
          \/ Float32Fails(csv.rows[i]["Electric Range"])

(* C1: when load_data fails (missing file, missing column, coercion failure) *)
(* it returns None and main returns normally: load_data is the only function *)
(* called, no forecast is computed, no chart file is written, no figure is   *)
(* opened and no exception leaves main.                                      *)
C1_LoadFailureShortCircuits ==
    Called("load_data") =>
        /\ InputError => df = None
        /\ df = None =>
              /\ pc = "done"
              /\ calls = <<"load_data">>
              /\ forecasted_evs = None
              /\ agg = None
              /\ files = <<>>
              /\ figs = {}
              /\ raised = NoError

C1_Witness ==
    /\ calls = <<"load_data">>
    /\ csv.exists
    /\ usecols \subseteq csv.header
    /\ InputError
    /\ df = None
    /\ pc = "done"

(* The rows of the input file with no missing value in a tracked column and *)
(* State 'WA'.                                                               *)
KeptRows ==
    {i \in 1..Len(csv.rows) :
        /\ \A c \in usecols : csv.rows[i][c] \notin NaValues
        /\ csv.rows[i]["State"] = "WA"}

(* C2: when load_data succeeds, the returned table holds exactly the input  *)
(* rows with no missing value in the eight tracked columns and State 'WA',  *)
(* in their original order, indexed 1..n without gaps (a model year as the  *)
(* int16 read from its text); no returned row has a missing value or        *)
(* another State.                                                           *)
C2_CleanedTableIsExactlyTheCompleteWARows ==
    (Called("load_data") /\ df # None) =>
        LET rows == Val(df).rows
        IN  /\ DOMAIN rows = 1..Cardinality(KeptRows)
            /\ \A j \in DOMAIN rows :
                  /\ \A c \in usecols : rows[j][c] # NaN
                  /\ rows[j]["State"] = <<"WA">>
                  /\ \E i \in KeptRows :
                        /\ Cardinality({m \in KeptRows : m <= i}) = j
                        /\ \A c \in CategoryCols : rows[j][c] = <<csv.rows[i][c]>>
                        /\ rows[j]["Model Year"] = <<Wrap16(ParseInt(csv.rows[i]["Model Year"]))>>
                        /\ rows[j]["Electric Range"] = <<ParseInt(csv.rows[i]["Electric Range"])>>

C2_Witness ==
    /\ Called("load_data")
    /\ df # None
    /\ Len(csv.rows) = 3
    /\ Len(Val(df).rows) = 1
    /\ \E i \in 1..3 : csv.rows[i]["City"] \in NaValues
    /\ \E i \in 1..3 : csv.rows[i]["State"] = "OR"

(* C3: whenever forecast_future_registrations returns, its map has exactly *)
(* the six keys 2024..2029, whatever years the table holds, so the lookup  *)
(* of each of these years by the forecast chart finds its key.             *)
C3_ForecastKeysAre2024To2029 ==
    forecasted_evs # None =>
        /\ DOMAIN Val(forecasted_evs) = {2024, 2025, 2026, 2027, 2028, 2029}
        /\ Cardinality(DOMAIN Val(forecasted_evs)) = 6
        /\ \A i \in 1..Len(forecast_years_full) :
              forecast_years_full[i] \in DOMAIN Val(forecasted_evs)

(* The model years of the cleaned table at or before the cutoff year. *)
FitYears ==
    {y \in {Val(Val(df).rows[i]["Model Year"]) : i \in 1..Len(Val(df).rows)} :
        y <= 2023}

LastFitYear == CHOOSE y \in FitYears : \A z \in FitYears : z <= y

C3_Witness ==
    /\ forecasted_evs # None
    /\ FitYears = {2019, 2020}
    /\ \E i \in 1..Len(Val(df).rows) : Val(Val(df).rows[i]["Model Year"]) = 2024

(* C4: with fewer than 2 distinct model years at or before 2023 in the     *)
(* cleaned table (one year, or none, also of an empty table) the forecast  *)
(* ends in an error and returns no map.                                    *)
C4_TooFewYearsFailExplicitly ==
    (df # None /\ Called("forecast_future_registrations") /\ Cardinality(FitYears) < 2) =>
        /\ raised # NoError
        /\ pc = "crashed"
        /\ forecasted_evs = None

C4_Witness ==
    /\ Called("forecast_future_registrations")
    /\ Cardinality(FitYears) = 1
    /\ Len(Val(df).rows) = 3
    /\ raised = "TypeError"

(* C10 as stated: the keys of the forecast map are the 6 years following the *)
(* last model year Y at or before 2023 present in the table: Y+1..Y+6.       *)
C10_KeysFollowLastDataYear ==
    forecasted_evs # None =>
        DOMAIN Val(forecasted_evs) = (LastFitYear + 1)..(LastFitYear + 6)

(* C10, amended: the keys of the forecast map are the 6 consecutive years    *)
(* following the cutoff year 2023, whatever the last model year Y at or      *)
(* before 2023 present in the table; they are Y+1..Y+6 only when Y = 2023.   *)
C10_KeysFollowCutoffYear ==
    forecasted_evs # None =>
        /\ DOMAIN Val(forecasted_evs) = (CUTOFF_YEAR + 1)..(CUTOFF_YEAR + 6)
        /\ (DOMAIN Val(forecasted_evs) = (LastFitYear + 1)..(LastFitYear + 6))
              <=> (LastFitYear = CUTOFF_YEAR)

C10_Witness ==
    /\ forecasted_evs # None
    /\ LastFitYear = 2020
    /\ Cardinality(FitYears) = 2

(* C5: only the load step has a recovery boundary.  An error of the forecast *)
(* leaves main with no chart file written; an error while rendering chart k  *)
(* leaves main with exactly the files of charts 1..k-1 written, and none of  *)
(* charts k..8.                                                              *)
C5_DownstreamErrorsPropagate ==
    /\ (raised # NoError) <=> (pc = "crashed")
    /\ raised # NoError =>
          /\ df # None
          /\ calls[1] = "load_data"
          /\ chart.k = 0 =>
                /\ calls = <<"load_data", "forecast_future_registrations">>
                /\ forecasted_evs = None
                /\ files = <<>>
          /\ chart.k >= 1 =>
                /\ calls = <<"load_data", "forecast_future_registrations", "plot_all_charts">>
                /\ Len(files) = chart.k - 1
                /\ \A i \in 1..Len(files) : files[i].slug = SlugOrder[i]

C5_Witness ==
    /\ raised = "RenderError"
    /\ pc = "crashed"
    /\ chart = [k |-> 4, phase |-> "draw"]
    /\ Len(files) = 3

(* C6: a completed run of plot_all_charts has written exactly eight files, *)
(* in the fixed slug order, all with the same prefix and timestamp; the    *)
(* figure of chart k is open only when k-1 or k files are written and stays *)
(* open until file k is written, so at most one figure is open at any time  *)
(* and none at the end.                                                     *)
C6_EightFilesOneFigureAtATime ==
    /\ Len(files) <= 8
    /\ \A i \in 1..Len(files) :
          /\ files[i].slug = SlugOrder[i]
          /\ files[i].prefix = files[1].prefix
          /\ files[i].timestamp = files[1].timestamp
    /\ Cardinality(figs) <= 1
    /\ \A k \in figs : Len(files) \in {k - 1, k}
    /\ (pc = "chart" /\ chart.phase # "create" /\ Len(files) < chart.k) => chart.k \in figs
    /\ (pc = "done" /\ Called("plot_all_charts")) => (Len(files) = 8 /\ figs = {})

C6_Witness ==
    /\ pc = "done"
    /\ Len(files) = 8
    /\ figs = {}
    /\ now > files[1].timestamp

(* A bar whose label longer than 12 characters is cut to its first 12     *)
(* characters followed by '...', and whose shorter label is unchanged.    *)
Shortened(b) ==
    IF Len(b.src) > 12
    THEN /\ Len(b.text) = 15
         /\ SubSeq(b.text, 1, 12) = SubSeq(b.src, 1, 12)
         /\ SubSeq(b.text, 13, 15) = "..."
    ELSE b.text = b.src

(* C7 as stated: in each horizontal-bar chart (top cities, vehicle types, *)
(* top 5 makes, top models, top models by range) a label longer than 12   *)
(* characters is cut to 12 characters and '...', a shorter one unchanged. *)
C7_EveryBarLabelShortened ==
    chart.k \in {2, 3, 4, 5, 7} => \A i \in 1..Len(drawn) : Shortened(drawn[i])

(* C7, amended: the City labels of the top-cities chart and the Model      *)
(* labels of the top-models and top-models-by-range charts longer than 12  *)
(* characters are cut to their first 12 characters followed by '...', and  *)
(* shorter ones are unchanged; the labels of the vehicle-type and top-5-   *)
(* makes charts are drawn unchanged whatever their length.                 *)
C7_CityAndModelLabelsShortened ==
    /\ chart.k \in {2, 5, 7} => \A i \in 1..Len(drawn) : Shortened(drawn[i])
    /\ chart.k \in {3, 4} => \A i \in 1..Len(drawn) : drawn[i].text = drawn[i].src

C7_Witness ==
    /\ chart.k = 2
    /\ \E i \in 1..Len(drawn) : Len(drawn[i].src) = 13 /\ Len(drawn[i].text) = 15
    /\ \E i \in 1..Len(drawn) : Len(drawn[i].src) = 12

(* The number of rows of the cleaned table holding v in col, and holding *)
(* the pair p in the columns a, b.                                       *)
N(col, v) ==
    Cardinality({i \in 1..Len(Val(df).rows) : Val(df).rows[i][col] = <<v>>})

NPair(a, b, p) ==
    Cardinality({i \in 1..Len(Val(df).rows) :
                    Val(df).rows[i][a] = <<p[1]>> /\ Val(df).rows[i][b] = <<p[2]>>})

(* keys, a sequence without repetition of at most n of the candidates, none *)
(* of the candidates left out counting strictly more than one selected      *)
TopN(keys, n, candidates, count(_)) ==
    /\ Len(keys) <= n
    /\ \A i, j \in 1..Len(keys) : keys[i] = keys[j] => i = j
    /\ Range(keys) \subseteq candidates
    /\ \A out \in candidates \ Range(keys) : \A sel \in Range(keys) : count(out) <= count(sel)

(* The pairs of the columns a, b of the cleaned table whose a is in groups. *)
CandidatePairs(a, b, groups) ==
    {<<Val(Val(df).rows[i][a]), Val(Val(df).rows[i][b])>> :
        i \in {j \in 1..Len(Val(df).rows) : Val(Val(df).rows[j][a]) \in groups}}

DrawnPairs == [i \in 1..Len(drawn) |-> <<drawn[i].group, drawn[i].src>>]

(* C8: each top-N selection of plot_all_charts (top 3 counties, top 5 makes, *)
(* top 3 makes, top 5 (county, city) pairs of the top counties, top 5 (make, *)
(* model) pairs of the top 3 makes) has at most N keys, and no key left out  *)
(* counts strictly more than a key in it; the top 3 makes are among the top  *)
(* 5 makes, and every selected pair has its county or make in the top 3.     *)
C8_TopNSelections ==
    agg # None =>
        LET a == Val(agg)
            county(v) == N("County", v)
            make(v) == N("Make", v)
            city(p) == NPair("County", "City", p)
            model(p) == NPair("Make", "Model", p)
        IN  /\ TopN(a.top_counties, 3, Val(df).cats["County"], county)
            /\ TopN(Keys(a.ev_make_distribution), 5, Val(df).cats["Make"], make)
            /\ TopN(a.top_3_makes, 3, Val(df).cats["Make"], make)
            /\ Range(a.top_3_makes) \subseteq Range(Keys(a.ev_make_distribution))
            /\ (chart.k = 2 /\ chart.phase \in {"save", "close"}) =>
                  /\ TopN(DrawnPairs, 5,
                          CandidatePairs("County", "City", Range(a.top_counties)), city)
                  /\ \A i \in 1..Len(drawn) :
                        /\ drawn[i].group \in Range(a.top_counties)
                        /\ drawn[i].val.num = city(DrawnPairs[i])
            /\ (chart.k = 5 /\ chart.phase \in {"save", "close"}) =>
                  /\ TopN(DrawnPairs, 5,
                          CandidatePairs("Make", "Model", Range(a.top_3_makes)), model)
                  /\ \A i \in 1..Len(drawn) :
                        /\ drawn[i].group \in Range(a.top_3_makes)
                        /\ drawn[i].val.num = model(DrawnPairs[i])

C8_Witness ==
    /\ chart = [k |-> 5, phase |-> "save"]
    /\ Len(drawn) = 5
    /\ Cardinality(Val(df).cats["Make"]) > 5
    /\ Cardinality(Val(df).cats["County"]) > 3
    /\ \E p \in CandidatePairs("Make", "Model", Range(Val(agg).top_3_makes)) \ Range(DrawnPairs) :
          \E i \in 1..Len(drawn) : NPair("Make", "Model", p) = drawn[i].val.num

(* C9: the counts per model year, per county and per vehicle type that     *)
(* plot_all_charts computes each sum to the number of rows of the cleaned  *)
(* table.                                                                  *)
C9_CountsSumToRowCount ==
    agg # None =>
        /\ Sum(Val(agg).ev_adoption_by_year) = Len(Val(df).rows)
        /\ Sum(Val(agg).ev_county_distribution) = Len(Val(df).rows)
        /\ Sum(Val(agg).ev_type_distribution) = Len(Val(df).rows)

C9_Witness ==
    /\ agg # None
    /\ Len(Val(df).rows) >= 18
    /\ Len(Val(df).rows) < Len(csv.rows)
    /\ Len(Val(agg).ev_county_distribution) > 3
    /\ \E i \in 1..Len(Val(agg).ev_county_distribution) :
          Val(agg).ev_county_distribution[i].val.num = 0

====
